---------------------------- MODULE Spec2Model ----------------------------
(***************************************************************************)
(* Embassy appointment scheduling application (src/app.py).                *)
(*                                                                         *)
(* State: the process configuration read at start-up, the `appointments`   *)
(* table of the SQLite database, and the last request served together      *)
(* with its response.  Each HTTP handler is one action.  Every database    *)
(* access of a handler runs inside get_db(), a single SQLite transaction,  *)
(* so the effect of a handler on the table is atomic and serialisable.     *)
(*                                                                         *)
(* Text is a sequence of ASCII codes; SQLite compares TEXT columns with    *)
(* the BINARY collation (memcmp, then length).  The columns created_at     *)
(* and updated_at are filled by SQLite's own clock at insert time, are     *)
(* written by no statement of the program and are left out of the rows.    *)
(***************************************************************************)
EXTENDS Integers, Sequences, FiniteSets, TLC

VARIABLES
    medical_required,   \* app.config['MEDICAL_EXAM_REQUIRED']
    validity_days,      \* app.config['MEDICAL_EXAM_VALIDITY_DAYS']
    appointments,       \* committed rows of table `appointments`
    created,            \* history: the create requests that answered 302, each with
                        \* its id, its form and whether the validator accepted it
    req,                \* the request being answered
    resp                \* its response

vars == <<medical_required, validity_days, appointments, created, req, resp>>

---------------------------------------------------------------------------
(* Bounds of the model *)

\* uuid4 draws from 2^122 values; the model draws from 1..NumIds
NumIds == 2
\* MEDICAL_EXAM_VALIDITY_DAYS ranges over 0..MaxValidityDays
MaxValidityDays == 1

---------------------------------------------------------------------------
(* Text values that requests carry *)

None == <<-1>>                      \* Python None (data.get of an absent key)
Empty == <<>>                       \* ''

T_Jane  == <<74, 97, 110, 101>>                           \* "Jane"
T_Mail  == <<106, 64, 120>>                               \* "j@x"
T_Pass  == <<80, 49>>                                     \* "P1"
T_Phone == <<53, 53, 53>>                                 \* "555"
T_0710  == <<50, 48, 50, 52, 45, 48, 55, 45, 49, 48>>     \* "2024-07-10"
T_071   == <<50, 48, 50, 52, 45, 48, 55, 45, 49>>         \* "2024-07-1"
T_9     == <<57>>                                         \* "9"
T_10    == <<49, 48>>                                     \* "10"
T_0229  == <<50, 48, 50, 52, 45, 48, 50, 45, 50, 57>>     \* "2024-02-29"
T_0230  == <<50, 48, 50, 52, 45, 48, 50, 45, 51, 48>>     \* "2024-02-30"
T_31    == <<50, 48, 50, 52, 45, 51, 45, 49>>             \* "2024-3-1"
T_Junk  == <<110, 111>>                                   \* "no"

---------------------------------------------------------------------------
(* datetime.strptime(s, '%Y-%m-%d') and datetime arithmetic *)

IsDigit(c) == c \in 48..57

Digit(c) == c - 48

\* calendar.isleap
IsLeap(y) == (y % 4 = 0) /\ ((y % 100 # 0) \/ (y % 400 = 0))

\* datetime._days_in_month
DaysInMonth(y, m) ==
    IF m = 2 THEN (IF IsLeap(y) THEN 29 ELSE 28)
    ELSE IF m \in {4, 6, 9, 11} THEN 30 ELSE 31

\* datetime._days_before_year
DaysBeforeYear(y) ==
    LET p == y - 1 IN p * 365 + (p \div 4) - (p \div 100) + (p \div 400)

RECURSIVE DaysBeforeMonth(_, _)
\* datetime._days_before_month
DaysBeforeMonth(y, m) ==
    IF m = 1 THEN 0 ELSE DaysBeforeMonth(y, m - 1) + DaysInMonth(y, m - 1)

\* datetime.toordinal
ToOrdinal(y, m, d) == DaysBeforeYear(y) + DaysBeforeMonth(y, m) + d

\* the %m group of _strptime: 1[0-2]|0[1-9]|[1-9]; 0 when s does not match
MonthField(s) ==
    IF Len(s) = 2 /\ s[1] = 49 /\ s[2] \in 48..50 THEN 10 + Digit(s[2])
    ELSE IF Len(s) = 2 /\ s[1] = 48 /\ s[2] \in 49..57 THEN Digit(s[2])
    ELSE IF Len(s) = 1 /\ s[1] \in 49..57 THEN Digit(s[1])
    ELSE 0

\* the %d group of _strptime: 3[01]|[12]\d|0[1-9]|[1-9]| [1-9]; 0 when s does not match
DayField(s) ==
    IF Len(s) = 2 /\ s[1] = 51 /\ s[2] \in 48..49 THEN 30 + Digit(s[2])
    ELSE IF Len(s) = 2 /\ s[1] \in 49..50 /\ IsDigit(s[2]) THEN 10 * Digit(s[1]) + Digit(s[2])
    ELSE IF Len(s) = 2 /\ s[1] \in {48, 32} /\ s[2] \in 49..57 THEN Digit(s[2])
    ELSE IF Len(s) = 1 /\ s[1] \in 49..57 THEN Digit(s[1])
    ELSE 0

\* datetime.strptime(s, '%Y-%m-%d'): [ok |-> FALSE] stands for ValueError,
\* otherwise the date at 00:00.  %Y is exactly four digits, each '-' is
\* literal, and the whole string has to be consumed.
strptime(s) ==
    LET bad == [ok |-> FALSE, year |-> 0, month |-> 0, day |-> 0]
        headOk == /\ s # None
                  /\ Len(s) >= 8
                  /\ \A i \in 1..4 : IsDigit(s[i])
                  /\ s[5] = 45
        mlen == IF s[7] = 45 THEN 1 ELSE 2
        y == 1000 * Digit(s[1]) + 100 * Digit(s[2]) + 10 * Digit(s[3]) + Digit(s[4])
    IN  IF ~headOk THEN bad
        ELSE IF Len(s) < 6 + mlen + 1 \/ s[6 + mlen] # 45 THEN bad
        ELSE LET m == MonthField(SubSeq(s, 6, 5 + mlen))
                 d == DayField(SubSeq(s, 7 + mlen, Len(s)))
             IN  IF m = 0 \/ d = 0 \/ y = 0 THEN bad
                 ELSE IF d > DaysInMonth(y, m) THEN bad
                 ELSE [ok |-> TRUE, year |-> y, month |-> m, day |-> d]

\* seconds of a day (timedelta normalisation)
SecondsPerDay == 86400

\* (now - exam_date).days: a timedelta is normalised so that 0 <= seconds
\* < one day, hence .days is the floor of the difference.  `now` is a
\* datetime [year, month, day, second] (second of the day); exam_date is
\* at 00:00:00.
DaysAgo(now, exam_date) ==
    LET days == ToOrdinal(now.year, now.month, now.day)
                  - ToOrdinal(exam_date.year, exam_date.month, exam_date.day)
        seconds == now.second
    IN  days + (seconds \div SecondsPerDay)

---------------------------------------------------------------------------
(* validate_medical_exam *)

\* A message is a record [text, n, field]: n and field are what an
\* f-string interpolates (0 and "" when it interpolates nothing).
NoMessage == [text |-> "", n |-> 0, field |-> ""]

MsgFormat == [text |-> "Invalid date format", n |-> 0, field |-> ""]

MsgFuture == [text |-> "Medical exam date cannot be in the future", n |-> 0, field |-> ""]

MsgWindow(validity) ==
    [text |-> "Medical exam must be within the last {validity_days} days",
     n |-> validity, field |-> ""]

MsgValid == [text |-> "Medical exam is valid", n |-> 0, field |-> ""]

\* variant: the window test is >= instead of >
validate_medical_exam_inclusive(exam_date_str, now, validity) ==
    LET exam_date == strptime(exam_date_str) IN
    IF ~exam_date.ok THEN [is_valid |-> FALSE, message |-> MsgFormat]
    ELSE LET days_ago == DaysAgo(now, exam_date) IN
         IF days_ago < 0 THEN [is_valid |-> FALSE, message |-> MsgFuture]
         ELSE IF days_ago >= validity THEN [is_valid |-> FALSE, message |-> MsgWindow(validity)]
         ELSE [is_valid |-> TRUE, message |-> MsgValid]

validate_medical_exam(exam_date_str, now, validity) ==
    LET exam_date == strptime(exam_date_str) IN
    IF ~exam_date.ok THEN [is_valid |-> FALSE, message |-> MsgFormat]
    ELSE LET days_ago == DaysAgo(now, exam_date) IN
         IF days_ago < 0 THEN [is_valid |-> FALSE, message |-> MsgFuture]
         ELSE IF days_ago > validity THEN [is_valid |-> FALSE, message |-> MsgWindow(validity)]
         ELSE [is_valid |-> TRUE, message |-> MsgValid]

---------------------------------------------------------------------------
(* get_db: one connection, one transaction *)

\* Storage faults a transaction can meet: connect raises; the execute-th
\* statement raises (0: none); commit raises; rollback raises.
NoFault == [connect |-> FALSE, execute |-> 0, commit |-> FALSE, rollback |-> FALSE]

Faults(n) ==
    {NoFault}
    \cup {[NoFault EXCEPT !.connect = TRUE]}
    \cup {[NoFault EXCEPT !.execute = k, !.rollback = rb] : k \in 1..n, rb \in BOOLEAN}
    \cup {[NoFault EXCEPT !.commit = TRUE, !.rollback = rb] : rb \in BOOLEAN}

RECURSIVE Executes(_)
Executes(k) == IF k = 0 THEN <<>> ELSE Append(Executes(k - 1), "execute")

\* with get_db() as conn: <n statements>.  `stmt_error` is the index of a
\* statement that raises for a reason of its own (a constraint), 0 for none.
\* The result is the sequence of calls made on the connection ("!" marks a
\* call that raised), whether the transaction committed, and whether an
\* exception leaves the with block.
\* variant: the commit sits in the finally clause
get_db_commit_in_finally(F, n, stmt_error) ==
    LET failAt == IF F.execute # 0 /\ (stmt_error = 0 \/ F.execute <= stmt_error)
                  THEN F.execute ELSE stmt_error
    IN  IF F.connect
        THEN [events |-> <<"connect!">>, committed |-> FALSE, raised |-> TRUE]
        ELSE IF failAt # 0
        THEN [events |-> <<"connect">> \o Executes(failAt - 1) \o <<"execute!", "commit", "close">>,
              committed |-> TRUE, raised |-> TRUE]
        ELSE [events |-> <<"connect">> \o Executes(n) \o <<"commit", "close">>,
              committed |-> TRUE, raised |-> F.commit]

\* variant: no finally clause, close only after the commit
get_db_without_finally(F, n, stmt_error) ==
    LET failAt == IF F.execute # 0 /\ (stmt_error = 0 \/ F.execute <= stmt_error)
                  THEN F.execute ELSE stmt_error
        undo == IF F.rollback THEN <<"rollback!">> ELSE <<"rollback">>
    IN  IF F.connect
        THEN [events |-> <<"connect!">>, committed |-> FALSE, raised |-> TRUE]
        ELSE IF failAt # 0
        THEN [events |-> <<"connect">> \o Executes(failAt - 1) \o <<"execute!">> \o undo,
              committed |-> FALSE, raised |-> TRUE]
        ELSE IF F.commit
        THEN [events |-> <<"connect">> \o Executes(n) \o <<"commit!">> \o undo,
              committed |-> FALSE, raised |-> TRUE]
        ELSE [events |-> <<"connect">> \o Executes(n) \o <<"commit", "close">>,
              committed |-> TRUE, raised |-> FALSE]

\* variant: the except clause does not re-raise
get_db_swallowing(F, n, stmt_error) ==
    LET failAt == IF F.execute # 0 /\ (stmt_error = 0 \/ F.execute <= stmt_error)
                  THEN F.execute ELSE stmt_error
        undo == IF F.rollback THEN <<"rollback!">> ELSE <<"rollback">>
    IN  IF F.connect
        THEN [events |-> <<"connect!">>, committed |-> FALSE, raised |-> FALSE]
        ELSE IF failAt # 0
        THEN [events |-> <<"connect">> \o Executes(failAt - 1) \o <<"execute!">> \o undo \o <<"close">>,
              committed |-> FALSE, raised |-> FALSE]
        ELSE IF F.commit
        THEN [events |-> <<"connect">> \o Executes(n) \o <<"commit!">> \o undo \o <<"close">>,
              committed |-> FALSE, raised |-> FALSE]
        ELSE [events |-> <<"connect">> \o Executes(n) \o <<"commit", "close">>,
              committed |-> TRUE, raised |-> FALSE]

get_db(F, n, stmt_error) ==
    LET failAt == IF F.execute # 0 /\ (stmt_error = 0 \/ F.execute <= stmt_error)
                  THEN F.execute ELSE stmt_error
        undo == IF F.rollback THEN <<"rollback!">> ELSE <<"rollback">>
    IN  IF F.connect
        THEN \* sqlite3.connect raises before the try block is entered
             [events |-> <<"connect!">>, committed |-> FALSE, raised |-> TRUE]
        ELSE IF failAt # 0
        THEN \* the body raises: except -> rollback, raise; finally -> close
             [events |-> <<"connect">> \o Executes(failAt - 1) \o <<"execute!">> \o undo \o <<"close">>,
              committed |-> FALSE, raised |-> TRUE]
        ELSE IF F.commit
        THEN \* conn.commit() raises inside the try block
             [events |-> <<"connect">> \o Executes(n) \o <<"commit!">> \o undo \o <<"close">>,
              committed |-> FALSE, raised |-> TRUE]
        ELSE [events |-> <<"connect">> \o Executes(n) \o <<"commit", "close">>,
              committed |-> TRUE, raised |-> FALSE]

---------------------------------------------------------------------------
(* The appointments table *)

Ids == 1..NumIds

\* memcmp order of two TEXT values (BINARY collation)
TextLess(a, b) ==
    \/ \E i \in 1..Len(a) :
          /\ i <= Len(b)
          /\ a[i] < b[i]
          /\ \A j \in 1..(i - 1) : a[j] = b[j]
    \/ /\ Len(a) < Len(b)
       /\ \A j \in 1..Len(a) : a[j] = b[j]

\* INSERT INTO appointments ...: the PRIMARY KEY of the schema of init_db
\* makes the statement raise (IntegrityError) when the id is already there.
\* variant: a table without the primary key
InsertNoKey(table, row) == [ok |-> TRUE, table |-> table \cup {row}]

Insert(table, row) ==
    IF \E r \in table : r.id = row.id
    THEN [ok |-> FALSE, table |-> table]
    ELSE [ok |-> TRUE, table |-> table \cup {row}]

\* the row comparison of ORDER BY appointment_date DESC, appointment_time DESC:
\* TRUE when r1 has to come before r2
\* variant: times compared as numbers (shorter first) instead of as text
ComesBeforeNumeric(r1, r2) ==
    \/ TextLess(r2.appointment_date, r1.appointment_date)
    \/ /\ r1.appointment_date = r2.appointment_date
       /\ \/ Len(r2.appointment_time) < Len(r1.appointment_time)
          \/ /\ Len(r2.appointment_time) = Len(r1.appointment_time)
             /\ TextLess(r2.appointment_time, r1.appointment_time)

ComesBefore(r1, r2) ==
    \/ TextLess(r2.appointment_date, r1.appointment_date)
    \/ /\ r1.appointment_date = r2.appointment_date
       /\ TextLess(r2.appointment_time, r1.appointment_time)

\* one step of the sorter: put row r behind every row it does not precede
SortInsert(sorted, r) ==
    LET ahead == {i \in 1..Len(sorted) : ~ComesBefore(r, sorted[i])}
        k == IF ahead = {} THEN 0 ELSE CHOOSE i \in ahead : \A j \in ahead : j <= i
    IN  SubSeq(sorted, 1, k) \o <<r>> \o SubSeq(sorted, k + 1, Len(sorted))

RECURSIVE OrderBy(_)
\* the sorter of ORDER BY applied to the rows in the order the scan yields them
OrderBy(scan) ==
    IF scan = <<>> THEN <<>>
    ELSE SortInsert(OrderBy(SubSeq(scan, 1, Len(scan) - 1)), scan[Len(scan)])

\* the orders in which a table scan can yield the rows (SQL leaves it open)
Scans(table) ==
    {s \in [1..Cardinality(table) -> table] : \A i, j \in DOMAIN s : s[i] = s[j] => i = j}

---------------------------------------------------------------------------
(* Requests *)

required_fields ==
    <<"applicant_name", "email", "passport_number",
      "appointment_date", "appointment_time", "medical_exam_date">>

Required == {required_fields[i] : i \in 1..Len(required_fields)}

\* request.form of a POST /appointments: a function from the keys sent to text
Form(date, time, exam) ==
    [applicant_name |-> T_Jane, email |-> T_Mail, passport_number |-> T_Pass,
     appointment_date |-> date, appointment_time |-> time, medical_exam_date |-> exam]

WithPhone(form) ==
    [f \in DOMAIN form \cup {"phone_number"} |->
        IF f = "phone_number" THEN T_Phone ELSE form[f]]

Blank(form, S) == [f \in DOMAIN form |-> IF f \in S THEN Empty ELSE form[f]]

Drop(form, f) == [g \in DOMAIN form \ {f} |-> form[g]]

\* forms with every required field filled in
FullForms ==
    {Form(d, t, T_0229) : d \in {T_0710, T_071}, t \in {T_9, T_10}}
    \cup {Form(T_0710, T_9, e) : e \in {T_0230, T_31, T_Junk}}
    \cup {WithPhone(Form(T_0710, T_9, T_0229))}

\* forms with required fields empty or not sent
MissingForms ==
    {Blank(Form(T_0710, T_9, e), S) : e \in {T_0229, T_0230}, S \in SUBSET Required \ {{}}}
    \cup {Drop(Form(T_0710, T_9, T_0229), f) : f \in Required}

Forms == FullForms \cup MissingForms

\* the values datetime.now() returns
Nows ==
    {[year |-> 2024, month |-> md[1], day |-> md[2], second |-> sec] :
        md \in {<<2, 28>>, <<2, 29>>, <<3, 1>>, <<3, 2>>}, sec \in {0, 86399}}

\* data.get(field) and data.get(field, default)
Get(data, field) == IF field \in DOMAIN data THEN data[field] ELSE None

GetDefault(data, field, default) == IF field \in DOMAIN data THEN data[field] ELSE default

\* Python truth value of a text or None
Falsy(v) == v = None \/ v = Empty

RECURSIVE CheckRequiredLast(_, _)
\* variant: the loop does not return at the first missing field
CheckRequiredLast(data, i) ==
    IF i > Len(required_fields) THEN ""
    ELSE LET rest == CheckRequiredLast(data, i + 1) IN
         IF rest # "" THEN rest
         ELSE IF Falsy(Get(data, required_fields[i])) THEN required_fields[i] ELSE ""

RECURSIVE CheckRequired(_, _)
\* the loop over required_fields from index i on: the field whose check
\* returns the 400 response, "" when the loop runs to its end
CheckRequired(data, i) ==
    IF i > Len(required_fields) THEN ""
    ELSE IF Falsy(Get(data, required_fields[i])) THEN required_fields[i]
    ELSE CheckRequired(data, i + 1)

MsgMissing(field) == [text |-> "Missing required field: {field}", n |-> 0, field |-> field]

MsgCreateFailed ==
    [text |-> "An error occurred while creating the appointment", n |-> 0, field |-> ""]

MsgNotFound == [text |-> "Appointment not found", n |-> 0, field |-> ""]

\* variant: the result of the validator is ignored
RejectsNever(check) == FALSE

\* `if not is_valid:` of create_appointment

Rejects(check) == ~check.is_valid

\* variant: the columns medical_exam_verified and status keep their defaults
NewRowPending(appointment_id, data) ==
    [id |-> appointment_id,
     applicant_name |-> data["applicant_name"],
     email |-> data["email"],
     passport_number |-> data["passport_number"],
     phone_number |-> GetDefault(data, "phone_number", Empty),
     appointment_date |-> data["appointment_date"],
     appointment_time |-> data["appointment_time"],
     medical_exam_date |-> data["medical_exam_date"],
     medical_exam_verified |-> 0,
     status |-> "pending"]

\* variant: date and time bound to each other's column
NewRowSwapped(appointment_id, data) ==
    [id |-> appointment_id,
     applicant_name |-> data["applicant_name"],
     email |-> data["email"],
     passport_number |-> data["passport_number"],
     phone_number |-> GetDefault(data, "phone_number", Empty),
     appointment_date |-> data["appointment_time"],
     appointment_time |-> data["appointment_date"],
     medical_exam_date |-> data["medical_exam_date"],
     medical_exam_verified |-> 1,
     status |-> "confirmed"]

\* the tuple of values bound to the INSERT statement
NewRow(appointment_id, data) ==
    [id |-> appointment_id,
     applicant_name |-> data["applicant_name"],
     email |-> data["email"],
     passport_number |-> data["passport_number"],
     phone_number |-> GetDefault(data, "phone_number", Empty),
     appointment_date |-> data["appointment_date"],
     appointment_time |-> data["appointment_time"],
     medical_exam_date |-> data["medical_exam_date"],
     medical_exam_verified |-> 1,
     status |-> "confirmed"]

\* the columns that the SELECT of list_appointments names
ListColumns(r) ==
    [id |-> r.id, applicant_name |-> r.applicant_name, email |-> r.email,
     passport_number |-> r.passport_number, appointment_date |-> r.appointment_date,
     appointment_time |-> r.appointment_time, status |-> r.status,
     medical_exam_date |-> r.medical_exam_date,
     medical_exam_verified |-> r.medical_exam_verified]

---------------------------------------------------------------------------
(* Handlers *)

Request(op) == [op |-> op, data |-> <<>>, appointment_id |-> 0]

\* status 0 with escaped = TRUE: the exception left the handler (what the
\* framework answers then is not decided by this program)
Response(op) ==
    [op |-> op, status |-> 0, error |-> NoMessage, location |-> 0, body |-> <<>>,
     validation |-> <<>>, events |-> <<>>, escaped |-> FALSE, logged |-> FALSE]

\* between two requests
Idle == req = Request("idle") /\ resp = Response("idle")

Escaped(op, tx) == [Response(op) EXCEPT !.events = tx.events, !.escaped = TRUE]

\* lines 127-156: the INSERT inside get_db, the redirect, the except clause
Persist(data, validation) ==
    \E appointment_id \in Ids, F \in Faults(1) :
        LET ins == Insert(appointments, NewRow(appointment_id, data))
            tx == get_db(F, 1, IF ins.ok THEN 0 ELSE 1)
            r == [Response("create_appointment") EXCEPT
                     !.validation = validation, !.events = tx.events]
        IN  /\ appointments' = IF tx.committed THEN ins.table ELSE appointments
            /\ IF tx.raised
               THEN /\ resp' = [r EXCEPT !.status = 500, !.error = MsgCreateFailed,
                                         !.logged = TRUE]
                    /\ UNCHANGED created
               ELSE /\ resp' = [r EXCEPT !.status = 302, !.location = appointment_id]
                    /\ created' = created \cup
                          {[id |-> appointment_id, data |-> data,
                            validated |-> validation # <<>> /\ validation[1].result.is_valid]}

\* POST /appointments
create_appointment ==
    \E data \in Forms :
        LET missing == CheckRequired(data, 1) IN
        /\ Idle
        /\ req' = [Request("create_appointment") EXCEPT !.data = data]
        /\ UNCHANGED <<medical_required, validity_days>>
        /\ IF missing # ""
           THEN /\ resp' = [Response("create_appointment") EXCEPT
                               !.status = 400, !.error = MsgMissing(missing)]
                /\ UNCHANGED <<appointments, created>>
           ELSE IF medical_required
           THEN \E now \in Nows :
                   LET check == validate_medical_exam(data["medical_exam_date"], now, validity_days)
                       validation == <<[exam_date_str |-> data["medical_exam_date"], now |-> now,
                                        validity_days |-> validity_days, result |-> check]>>
                   IN  IF Rejects(check)
                       THEN /\ resp' = [Response("create_appointment") EXCEPT
                                           !.status = 400, !.error = check.message,
                                           !.validation = validation]
                            /\ UNCHANGED <<appointments, created>>
                       ELSE Persist(data, validation)
           ELSE Persist(data, <<>>)

\* GET /appointments
list_appointments ==
    \E F \in Faults(1), scan \in Scans(appointments) :
        LET tx == get_db(F, 1, 0) IN
        /\ Idle
        /\ req' = Request("list_appointments")
        /\ resp' = IF tx.raised THEN Escaped("list_appointments", tx)
                   ELSE LET rows == OrderBy(scan) IN
                        [Response("list_appointments") EXCEPT
                            !.status = 200, !.events = tx.events,
                            !.body = [i \in 1..Len(rows) |-> ListColumns(rows[i])]]
        /\ UNCHANGED <<medical_required, validity_days, appointments, created>>

\* GET /appointments/<appointment_id>
appointment_detail ==
    \E appointment_id \in Ids, F \in Faults(1) :
        LET tx == get_db(F, 1, 0)
            found == {r \in appointments : r.id = appointment_id}
        IN
        /\ Idle
        /\ req' = [Request("appointment_detail") EXCEPT !.appointment_id = appointment_id]
        /\ resp' = IF tx.raised THEN Escaped("appointment_detail", tx)
                   ELSE IF found = {}
                   THEN [Response("appointment_detail") EXCEPT
                            !.status = 404, !.error = MsgNotFound, !.events = tx.events]
                   ELSE [Response("appointment_detail") EXCEPT
                            !.status = 200, !.events = tx.events,
                            !.body = <<CHOOSE r \in found : TRUE>>]
        /\ UNCHANGED <<medical_required, validity_days, appointments, created>>

\* the try/except of health and ready around one statement
Probe(op, F) ==
    LET tx == get_db(F, 1, 0) IN
    /\ Idle
    /\ req' = Request(op)
    /\ resp' = IF tx.raised
               THEN [Response(op) EXCEPT !.status = 503, !.events = tx.events, !.logged = TRUE]
               ELSE [Response(op) EXCEPT !.status = 200, !.events = tx.events]
    /\ UNCHANGED <<medical_required, validity_days, appointments, created>>

\* GET /health
health == \E F \in Faults(1) : Probe("health", F)

\* GET /ready
ready == \E F \in Faults(1) : Probe("ready", F)

\* GET /metrics
metrics ==
    \E F \in Faults(3) :
        LET tx == get_db(F, 3, 0)
            total_appointments == Cardinality(appointments)
            pending_appointments == Cardinality({r \in appointments : r.status = "pending"})
            confirmed_appointments == Cardinality({r \in appointments : r.status = "confirmed"})
        IN
        /\ Idle
        /\ req' = Request("metrics")
        /\ resp' = IF tx.raised THEN Escaped("metrics", tx)
                   ELSE [Response("metrics") EXCEPT
                            !.status = 200, !.events = tx.events,
                            !.body = <<[appointments_total |-> total_appointments,
                                        appointments_pending |-> pending_appointments,
                                        appointments_confirmed |-> confirmed_appointments]>>]
        /\ UNCHANGED <<medical_required, validity_days, appointments, created>>

\* GET /
index ==
    /\ Idle
    /\ req' = Request("index")
    /\ resp' = [Response("index") EXCEPT !.status = 200]
    /\ UNCHANGED <<medical_required, validity_days, appointments, created>>

\* init_db(): CREATE TABLE IF NOT EXISTS leaves an existing table as it is
init_db ==
    \E F \in Faults(1) :
        LET tx == get_db(F, 1, 0) IN
        /\ Idle
        /\ req' = Request("init_db")
        /\ resp' = IF tx.raised THEN Escaped("init_db", tx)
                   ELSE [Response("init_db") EXCEPT !.events = tx.events]
        /\ UNCHANGED <<medical_required, validity_days, appointments, created>>

\* the server has sent the response and waits for the next request
ReturnResponse ==
    /\ ~Idle
    /\ req' = Request("idle")
    /\ resp' = Response("idle")
    /\ UNCHANGED <<medical_required, validity_days, appointments, created>>

\* the process has started: the configuration is read, init_db() has run
Init ==
    /\ medical_required \in BOOLEAN
    /\ validity_days \in 0..MaxValidityDays
    /\ appointments = {}
    /\ created = {}
    /\ req = Request("idle")
    /\ resp = Response("idle")

Next ==
    \/ create_appointment
    \/ list_appointments
    \/ appointment_detail
    \/ health
    \/ ready
    \/ metrics
    \/ index
    \/ init_db
    \/ ReturnResponse

Spec == Init /\ [][Next]_vars

---------------------------------------------------------------------------
(* Properties *)

\* a call on the connection raised
Failed(events) == \E i \in 1..Len(events) : events[i] \in {"connect!", "execute!", "commit!"}

\* the calls of a transaction that ran to its end without an exception
CleanWrite == <<"connect", "execute", "commit", "close">>

AllPresent(data) == \A f \in Required : f \in DOMAIN data /\ data[f] # Empty

CreateStep == req.op = "idle" /\ req'.op = "create_appointment"

\* the row holds what the form submitted, confirmed and verified
Holds(row, data) ==
    /\ row.applicant_name = data["applicant_name"]
    /\ row.email = data["email"]
    /\ row.passport_number = data["passport_number"]
    /\ row.appointment_date = data["appointment_date"]
    /\ row.appointment_time = data["appointment_time"]
    /\ row.medical_exam_date = data["medical_exam_date"]
    /\ row.phone_number = (IF "phone_number" \in DOMAIN data THEN data["phone_number"] ELSE Empty)
    /\ row.status = "confirmed"
    /\ row.medical_exam_verified = 1

\* C1: a create with all six required fields non-empty, an exam date the
\* validator accepts (or the flag off) and a write that succeeds answers 302
\* with the id of exactly one stored row, and a later GET /appointments/{id}
\* of a created id finds a row holding the submitted fields, status
\* "confirmed" and medical_exam_verified 1.
C1_CreateThenDetail ==
    /\ (/\ resp.op = "create_appointment"
        /\ AllPresent(req.data)
        /\ ~medical_required \/ (resp.validation # <<>> /\ resp.validation[1].result.is_valid)
        /\ resp.events = CleanWrite)
       => /\ resp.status = 302
          /\ resp.location \in Ids
          /\ Cardinality({r \in appointments : r.id = resp.location}) = 1
          /\ \A r \in appointments : r.id = resp.location => Holds(r, req.data)
    /\ (/\ resp.op = "appointment_detail"
        /\ ~resp.escaped)
       => \A c \in created :
             c.id = req.appointment_id
             => /\ resp.status = 200
                /\ Len(resp.body) = 1
                /\ resp.body[1].id = c.id
                /\ Holds(resp.body[1], c.data)

C1_Witness ==
    /\ resp.op = "appointment_detail"
    /\ resp.status = 200
    /\ medical_required
    /\ \E c \in created :
          /\ c.id = req.appointment_id
          /\ "phone_number" \in DOMAIN c.data
          /\ resp.body[1].phone_number = T_Phone

\* the order in which the claim names the required fields
C2_Order ==
    <<"applicant_name", "email", "passport_number",
      "appointment_date", "appointment_time", "medical_exam_date">>

C2_Missing(data, f) == f \notin DOMAIN data \/ data[f] = Empty

\* C2: a create in which a required field is absent or empty answers 400
\* naming the first missing field in the order applicant_name, email,
\* passport_number, appointment_date, appointment_time, medical_exam_date,
\* whatever the other fields hold, and leaves the table unchanged.
C2_MissingField ==
    [][(CreateStep /\ \E i \in 1..6 : C2_Missing(req'.data, C2_Order[i]))
       => LET first == CHOOSE i \in 1..6 :
                           /\ C2_Missing(req'.data, C2_Order[i])
                           /\ \A j \in 1..(i - 1) : ~C2_Missing(req'.data, C2_Order[j])
          IN  /\ resp'.status = 400
              /\ resp'.error.text = "Missing required field: {field}"
              /\ resp'.error.field = C2_Order[first]
              /\ appointments' = appointments
              /\ Cardinality(appointments') = Cardinality(appointments)]_vars

C2_Witness ==
    /\ req.op = "create_appointment"
    /\ resp.status = 400
    /\ resp.error.field = "passport_number"
    /\ req.data = Blank(Form(T_0710, T_9, T_0230), {"passport_number", "appointment_time"})
    /\ appointments # {}

\* C3: with the flag on, a create with all required fields whose exam date
\* the validator rejects answers 400 with the validator's reason and writes
\* nothing; so with the flag on every stored row was created by a request
\* whose exam date the validator accepted at that time.
C3_RejectedNotStored ==
    [][/\ (/\ CreateStep
           /\ medical_required
           /\ AllPresent(req'.data)
           /\ resp'.validation # <<>>
           /\ ~resp'.validation[1].result.is_valid)
          => /\ resp'.status = 400
             /\ resp'.error = resp'.validation[1].result.message
             /\ resp'.events = <<>>
             /\ appointments' = appointments
       /\ medical_required'
          => \A r \in appointments' :
                \E c \in created' :
                   /\ c.id = r.id
                   /\ c.validated
                   /\ c.data["medical_exam_date"] = r.medical_exam_date]_vars

C3_Witness ==
    /\ medical_required
    /\ appointments # {}
    /\ resp.op = "create_appointment"
    /\ resp.status = 400
    /\ resp.validation # <<>>
    /\ resp.error = MsgWindow(validity_days)

\* the position of a day in the calendar 2024-02-28, 2024-02-29, 2024-03-01,
\* 2024-03-02 (2024 is a leap year)
C4_DayIndex(month, day) ==
    CASE month = 2 /\ day = 28 -> 1
      [] month = 2 /\ day = 29 -> 2
      [] month = 3 /\ day = 1 -> 3
      [] month = 3 /\ day = 2 -> 4

\* the well-formed exam dates of the requests, as days of that calendar
C4_ExamDay(text) ==
    CASE text = T_0229 -> 2
      [] text = T_31 -> 3

\* C4: for a well-formed exam date d, a current date-time and a window
\* N >= 0, the validator answers invalid with the future-date reason when d
\* is after the current date, invalid with the window reason when d is more
\* than N days before it, and valid exactly when d is 0..N days in the past.
C4_Validator ==
    (resp.validation # <<>> /\ resp.validation[1].exam_date_str \in {T_0229, T_31})
    => LET v == resp.validation[1]
           k == C4_DayIndex(v.now.month, v.now.day) - C4_ExamDay(v.exam_date_str)
           N == v.validity_days
       IN  /\ N = validity_days
           /\ N >= 0
           /\ k < 0 => (~v.result.is_valid /\ v.result.message.text = "Medical exam date cannot be in the future")
           /\ k > N => /\ ~v.result.is_valid
                       /\ v.result.message.text = "Medical exam must be within the last {validity_days} days"
                       /\ v.result.message.n = N
           /\ v.result.is_valid <=> (0 <= k /\ k <= N)

C4_Witness ==
    /\ resp.validation # <<>>
    /\ resp.validation[1].exam_date_str = T_31
    /\ resp.validation[1].now = [year |-> 2024, month |-> 3, day |-> 2, second |-> 86399]
    /\ resp.validation[1].validity_days = 1
    /\ resp.validation[1].result.is_valid

\* C5: the list of GET /appointments holds every stored row exactly once,
\* ordered by appointment_date descending and, among equal dates, by
\* appointment_time descending, both compared as text.
C5_ListOrdered ==
    (resp.op = "list_appointments" /\ resp.status = 200)
    => LET body == resp.body IN
       /\ Len(body) = Cardinality(appointments)
       /\ \A r \in appointments :
             Cardinality({i \in 1..Len(body) : body[i].id = r.id}) = 1
       /\ \A i \in 1..Len(body) :
             \E r \in appointments :
                /\ body[i].id = r.id
                /\ body[i].appointment_date = r.appointment_date
                /\ body[i].appointment_time = r.appointment_time
                /\ body[i].applicant_name = r.applicant_name
                /\ body[i].status = r.status
       /\ \A i, j \in 1..Len(body) :
             i < j
             => \/ TextLess(body[j].appointment_date, body[i].appointment_date)
                \/ /\ body[i].appointment_date = body[j].appointment_date
                   /\ ~TextLess(body[i].appointment_time, body[j].appointment_time)

C5_Witness ==
    /\ resp.op = "list_appointments"
    /\ resp.status = 200
    /\ Len(resp.body) = 2
    /\ resp.body[1].id > resp.body[2].id
    /\ resp.body[1].appointment_date = resp.body[2].appointment_date
    /\ resp.body[1].appointment_time = T_9
    /\ resp.body[2].appointment_time = T_10

\* C6: GET /metrics reports appointments_total equal to the number of
\* creates that succeeded, appointments_confirmed equal to it, and
\* appointments_pending 0.
C6_Metrics ==
    (resp.op = "metrics" /\ resp.status = 200)
    => /\ resp.body[1].appointments_total = Cardinality(created)
       /\ resp.body[1].appointments_confirmed = resp.body[1].appointments_total
       /\ resp.body[1].appointments_pending = 0

C6_Witness ==
    /\ resp.op = "metrics"
    /\ resp.status = 200
    /\ resp.body[1].appointments_total = 2
    /\ Cardinality(created) = 2

\* C7: when the insert or the commit of a create raises, rollback is called
\* and nothing commits, the request answers the generic 500, and the table
\* is what it was before the request.
C7_WriteFailure ==
    [][(/\ CreateStep
        /\ \E i \in 1..Len(resp'.events) : resp'.events[i] \in {"execute!", "commit!"})
       => /\ \E i \in 1..Len(resp'.events) : resp'.events[i] \in {"rollback", "rollback!"}
          /\ \A i \in 1..Len(resp'.events) : resp'.events[i] # "commit"
          /\ resp'.status = 500
          /\ resp'.error.text = "An error occurred while creating the appointment"
          /\ resp'.location = 0
          /\ appointments' = appointments
          /\ created' = created]_vars

C7_Witness ==
    /\ resp.op = "create_appointment"
    /\ resp.status = 500
    /\ resp.events = <<"connect", "execute", "commit!", "rollback", "close">>
    /\ appointments # {}

C10_ConnectionReleased ==
    LET e == resp.events IN
    /\ (e # <<>> /\ e[1] = "connect")
       => /\ e[Len(e)] = "close"
          /\ Cardinality({i \in 1..Len(e) : e[i] = "close"}) = 1
    /\ (e # <<>> /\ e[1] = "connect!") => Len(e) = 1
    /\ (\E i \in 1..Len(e) : e[i] = "execute!")
       => /\ \A i \in 1..Len(e) : e[i] \notin {"commit", "commit!"}
          /\ Len(e) >= 2
          /\ e[Len(e) - 1] \in {"rollback", "rollback!"}
    /\ (\E i \in 1..Len(e) : e[i] = "commit!")
       => e[Len(e) - 1] \in {"rollback", "rollback!"}

C10_Witness ==
    /\ resp.op = "create_appointment"
    /\ resp.events = <<"connect", "execute!", "rollback!", "close">>
    /\ resp.status = 500

=============================================================================
